---- MODULE Spec2Model ----
(***************************************************************************)
(* Model of the two command-line pipelines of the repository:              *)
(*   src/quotes/fetch_lqdt.py    (LQDT daily candles  -> XLSX)             *)
(*   src/rates/fetch_usd_rub.py  (EUR/RUB CBR rates   -> Parquet)          *)
(*                                                                         *)
(* Texts (argv values, XML attribute and node texts, candle timestamps)    *)
(* are sequences of one-character strings, so that parsing is computed.    *)
(* A calendar date is its proleptic Gregorian ordinal (date.toordinal()),  *)
(* a Decimal is a record [num, scale] standing for num / 10^scale.         *)
(***************************************************************************)
EXTENDS Integers, Sequences, FiniteSets, TLC

None == "None"

(* ------------------------------ texts --------------------------------- *)

Digits == {"0", "1", "2", "3", "4", "5", "6", "7", "8", "9"}

DigitVal(c) ==
    CASE c = "0" -> 0 [] c = "1" -> 1 [] c = "2" -> 2 [] c = "3" -> 3
      [] c = "4" -> 4 [] c = "5" -> 5 [] c = "6" -> 6 [] c = "7" -> 7
      [] c = "8" -> 8 [] c = "9" -> 9

AllDigits(t) == Len(t) >= 1 /\ \A i \in 1..Len(t) : t[i] \in Digits

RECURSIVE DigitsToNat(_)
DigitsToNat(t) ==
    IF t = <<>> THEN 0
    ELSE 10 * DigitsToNat(SubSeq(t, 1, Len(t) - 1)) + DigitVal(t[Len(t)])

RECURSIVE Pow10(_)
Pow10(k) == IF k = 0 THEN 1 ELSE 10 * Pow10(k - 1)

\* str.replace(",", "."): every comma becomes a dot
ReplaceComma(t) == [i \in 1..Len(t) |-> IF t[i] = "," THEN "." ELSE t[i]]

\* positions of character c in t
Positions(t, c) == {i \in 1..Len(t) : t[i] = c}

\* int(value) of a text: an optional sign followed by decimal digits
ParseInt(t) ==
    LET signed == Len(t) >= 1 /\ t[1] \in {"+", "-"}
        body   == IF signed THEN SubSeq(t, 2, Len(t)) ELSE t
    IN  IF AllDigits(body)
        THEN [ok |-> TRUE,
              val |-> IF signed /\ t[1] = "-" THEN 0 - DigitsToNat(body)
                      ELSE DigitsToNat(body)]
        ELSE [ok |-> FALSE, val |-> 0]

(* ------------------------------ dates --------------------------------- *)

MinOrdinal == 1
MaxOrdinal == 3652059
MaxYear == 9999

IsLeap(y) == (y % 4 = 0) /\ ((y % 100 # 0) \/ (y % 400 = 0))

DaysInMonth(y, m) ==
    IF m = 2 THEN (IF IsLeap(y) THEN 29 ELSE 28)
    ELSE IF m \in {4, 6, 9, 11} THEN 30 ELSE 31

RECURSIVE DaysBeforeMonth(_, _)
DaysBeforeMonth(y, m) ==
    IF m = 1 THEN 0 ELSE DaysBeforeMonth(y, m - 1) + DaysInMonth(y, m - 1)

DaysBeforeYear(y) ==
    (y - 1) * 365 + ((y - 1) \div 4) - ((y - 1) \div 100) + ((y - 1) \div 400)

ValidYMD(y, m, d) ==
    /\ y \in 1..MaxYear
    /\ m \in 1..12
    /\ d \in 1..DaysInMonth(y, m)

\* date(y, m, d).toordinal()
ToOrdinal(y, m, d) == DaysBeforeYear(y) + DaysBeforeMonth(y, m) + d

\* date - timedelta(days=n): OverflowError outside [date.min, date.max]
DateMinusDays(ord, n) ==
    IF ord - n >= MinOrdinal /\ ord - n <= MaxOrdinal
    THEN [ok |-> TRUE, val |-> ord - n]
    ELSE [ok |-> FALSE, val |-> 0]

\* date.fromisoformat(value) for the extended form YYYY-MM-DD
FromIsoFormat(t) ==
    IF /\ Len(t) = 10
       /\ t[5] = "-" /\ t[8] = "-"
       /\ AllDigits(SubSeq(t, 1, 4))
       /\ AllDigits(SubSeq(t, 6, 7))
       /\ AllDigits(SubSeq(t, 9, 10))
    THEN LET y == DigitsToNat(SubSeq(t, 1, 4))
             m == DigitsToNat(SubSeq(t, 6, 7))
             d == DigitsToNat(SubSeq(t, 9, 10))
         IN  IF ValidYMD(y, m, d)
             THEN [ok |-> TRUE, val |-> ToOrdinal(y, m, d)]
             ELSE [ok |-> FALSE, val |-> 0]
    ELSE [ok |-> FALSE, val |-> 0]

\* datetime.strptime(text, "%d.%m.%Y").date(): day and month of one or two
\* digits, a four-digit year, separated by dots
StrptimeRecordDate(t) ==
    LET dots == Positions(t, ".")
    IN  IF Cardinality(dots) # 2 THEN [ok |-> FALSE, val |-> 0]
        ELSE LET p1 == CHOOSE i \in dots : \A j \in dots : i <= j
                 p2 == CHOOSE i \in dots : \A j \in dots : j <= i
                 dd == SubSeq(t, 1, p1 - 1)
                 mm == SubSeq(t, p1 + 1, p2 - 1)
                 yy == SubSeq(t, p2 + 1, Len(t))
             IN  IF /\ AllDigits(dd) /\ Len(dd) <= 2
                    /\ AllDigits(mm) /\ Len(mm) <= 2
                    /\ AllDigits(yy) /\ Len(yy) = 4
                    /\ ValidYMD(DigitsToNat(yy), DigitsToNat(mm), DigitsToNat(dd))
                 THEN [ok |-> TRUE,
                       val |-> ToOrdinal(DigitsToNat(yy), DigitsToNat(mm),
                                         DigitsToNat(dd))]
                 ELSE [ok |-> FALSE, val |-> 0]

(* ----------------------------- decimals ------------------------------- *)

\* Decimal(text): an optional sign, digits with at most one point and at
\* least one digit; InvalidOperation otherwise
ParseDecimal(t) ==
    LET signed == Len(t) >= 1 /\ t[1] \in {"+", "-"}
        body   == IF signed THEN SubSeq(t, 2, Len(t)) ELSE t
        dots   == Positions(body, ".")
        neg    == signed /\ t[1] = "-"
    IN  IF Cardinality(dots) > 1 THEN [ok |-> FALSE, num |-> 0, scale |-> 0]
        ELSE LET p    == IF dots = {} THEN Len(body) + 1
                         ELSE CHOOSE i \in dots : TRUE
                 ip   == SubSeq(body, 1, p - 1)
                 fp   == SubSeq(body, p + 1, Len(body))
                 digs == ip \o fp
             IN  IF AllDigits(digs)
                 THEN [ok |-> TRUE,
                       num |-> IF neg THEN 0 - DigitsToNat(digs)
                               ELSE DigitsToNat(digs),
                       scale |-> Len(fp)]
                 ELSE [ok |-> FALSE, num |-> 0, scale |-> 0]

Abs(x) == IF x < 0 THEN 0 - x ELSE x

\* p / q rounded to an integer, ties to the even neighbour (ROUND_HALF_EVEN,
\* the rounding of the default decimal context)
RoundHalfEven(p, q) ==
    LET a   == Abs(p)
        b   == Abs(q)
        f   == a \div b
        rem == a % b
        mag == IF 2 * rem < b THEN f
               ELSE IF 2 * rem > b THEN f + 1
               ELSE IF f % 2 = 0 THEN f ELSE f + 1
    IN  IF (p < 0) # (q < 0) THEN 0 - mag ELSE mag

(* ------------------- quotes: src/quotes/fetch_lqdt.py ------------------ *)

SECURITY == <<"L", "Q", "D", "T">>
COLUMNS == <<"begin", "open", "high", "low", "close", "volume", "value">>

\* variant: the guard lets a count of zero through
quotes_build_date_range_zero_ok(years, end_date, today) ==
    IF years < 0 THEN [kind |-> "ValueError", start |-> 0, end |-> 0]
    ELSE LET effective_end == IF end_date # <<>> THEN end_date[1] ELSE today
             start == DateMinusDays(effective_end, years * 365)
         IN  IF start.ok
             THEN [kind |-> "ok", start |-> start.val, end |-> effective_end]
             ELSE [kind |-> "OverflowError", start |-> 0, end |-> 0]

\* build_date_range(years, end_date=...) of the quotes module; an optional
\* argument is <<>> (None) or <<v>>
quotes_build_date_range(years, end_date, today) ==
    IF years < 1 THEN [kind |-> "ValueError", start |-> 0, end |-> 0]
    ELSE LET effective_end == IF end_date # <<>> THEN end_date[1] ELSE today
             start == DateMinusDays(effective_end, years * 365)
         IN  IF start.ok
             THEN [kind |-> "ok", start |-> start.val, end |-> effective_end]
             ELSE [kind |-> "OverflowError", start |-> 0, end |-> 0]

\* class hierarchy used by the except clauses of _execute_fetch
IsRequestException(type) == type \in {"RequestException", "ConnectionError", "Timeout"}
IsException(type) ==
    IsRequestException(type) \/ type \in {"QuoteFetchError", "KeyError", "ValueError"}

\* the try body of _execute_fetch: what apimoex.get_board_candles did, then
\* the emptiness check
execute_fetch_try(outcome) ==
    IF outcome.kind = "raise"
    THEN [kind |-> "raise", type |-> outcome.type, msg |-> outcome.msg, data |-> <<>>]
    ELSE IF outcome.data = <<>>
    THEN [kind |-> "raise", type |-> "QuoteFetchError",
          msg |-> <<"empty_dataset_for">> \o SECURITY, data |-> <<>>]
    ELSE [kind |-> "return", type |-> None, msg |-> <<>>, data |-> outcome.data]

\* variant: only the transport exceptions are wrapped
_execute_fetch_no_catch_all(outcome) ==
    LET r == execute_fetch_try(outcome)
    IN  IF r.kind = "return" THEN r
        ELSE IF IsRequestException(r.type)
        THEN [r EXCEPT !.type = "QuoteFetchError",
                       !.msg = <<"api_request_error">> \o r.msg]
        ELSE r

\* _execute_fetch: the try body followed by its two except clauses, in order:
\* `except requests.RequestException`, then `except Exception`
_execute_fetch(outcome) ==
    LET r == execute_fetch_try(outcome)
    IN  IF r.kind = "return" THEN r
        ELSE IF IsRequestException(r.type)
        THEN [r EXCEPT !.type = "QuoteFetchError",
                       !.msg = <<"api_request_error">> \o r.msg]
        ELSE IF IsException(r.type)
        THEN [r EXCEPT !.type = "QuoteFetchError",
                       !.msg = <<"unexpected_error">> \o r.msg]
        ELSE r

(* ---- quotes: build_dataframe ------------------------------------------ *)

\* A candle is a dict in insertion order: a sequence of <<key, value>> pairs.
\* NaN is the filler pandas uses for a key a row lacks, NaT a missing date.
NaN == <<"NaN">>
NaT == <<"NaT">>

CandleKeys(c) == [i \in 1..Len(c) |-> c[i][1]]
HasKey(c, k) == \E i \in 1..Len(c) : c[i][1] = k
CandleGet(c, k) ==
    IF HasKey(c, k) THEN c[CHOOSE i \in 1..Len(c) : c[i][1] = k][2] ELSE NaN

InSeq(x, s) == \E i \in 1..Len(s) : s[i] = x

\* apimoex.get_board_candles(..., columns=columns): the exchange answers with
\* the requested columns only, so each candle it holds comes back restricted
\* to them; an exception of the library passes through
get_board_candles(exchange, columns) ==
    IF exchange.kind = "raise" THEN exchange
    ELSE [exchange EXCEPT !.data =
            [i \in 1..Len(exchange.data) |->
                SelectSeq(exchange.data[i], LAMBDA pair : InSeq(pair[1], columns))]]

\* keys in order of first appearance
RECURSIVE FirstSeen(_)
FirstSeen(keys) ==
    IF keys = <<>> THEN <<>>
    ELSE LET front == FirstSeen(SubSeq(keys, 1, Len(keys) - 1))
             last  == keys[Len(keys)]
         IN  IF InSeq(last, front) THEN front ELSE Append(front, last)

RECURSIVE AllKeys(_)
AllKeys(candles) ==
    IF candles = <<>> THEN <<>>
    ELSE AllKeys(SubSeq(candles, 1, Len(candles) - 1))
            \o CandleKeys(candles[Len(candles)])

\* pd.DataFrame(candles).columns
DataFrameColumns(candles) == FirstSeen(AllKeys(candles))

\* column_mapping, in the order of the dict literal
column_mapping ==
    << <<"begin", "date">>, <<"open", "open">>, <<"high", "high">>,
       <<"low", "low">>, <<"close", "close">>, <<"volume", "volume">>,
       <<"value", "value">>, <<"waprice", "vwap">> >>

\* pd.to_datetime of one cell "YYYY-MM-DD HH:MM:SS": <<ordinal, second of day>>
ToDatetime(t) ==
    IF t = NaN THEN [ok |-> TRUE, val |-> NaT]
    ELSE IF /\ Len(t) = 19
            /\ t[11] = " " /\ t[14] = ":" /\ t[17] = ":"
            /\ FromIsoFormat(SubSeq(t, 1, 10)).ok
            /\ AllDigits(SubSeq(t, 12, 13)) /\ DigitsToNat(SubSeq(t, 12, 13)) < 24
            /\ AllDigits(SubSeq(t, 15, 16)) /\ DigitsToNat(SubSeq(t, 15, 16)) < 60
            /\ AllDigits(SubSeq(t, 18, 19)) /\ DigitsToNat(SubSeq(t, 18, 19)) < 60
    THEN [ok |-> TRUE,
          val |-> << FromIsoFormat(SubSeq(t, 1, 10)).val,
                     3600 * DigitsToNat(SubSeq(t, 12, 13))
                       + 60 * DigitsToNat(SubSeq(t, 15, 16))
                       + DigitsToNat(SubSeq(t, 18, 19)) >>]
    ELSE [ok |-> FALSE, val |-> NaT]

\* ascending order of datetimes, NaT last (na_position="last")
DtLeq(a, b) ==
    IF b = NaT THEN TRUE
    ELSE IF a = NaT THEN FALSE
    ELSE a[1] < b[1] \/ (a[1] = b[1] /\ a[2] <= b[2])

Perms(n) == {p \in [1..n -> 1..n] : \A i, j \in 1..n : p[i] = p[j] => i = j}

\* variant: the rows stay in input order
SortValuesByDate_unsorted(rows) == {rows}

\* df.sort_values("date").reset_index(drop=True): the default sort kind is
\* not stable, so every ordering of the rows that is ascending by date
SortValuesByDate(rows) ==
    {[i \in 1..Len(rows) |-> rows[p[i]]] : p \in
        {q \in Perms(Len(rows)) :
            \A i \in 1..(Len(rows) - 1) : DtLeq(rows[q[i]].date, rows[q[i + 1]].date)}}

\* build_dataframe(candles): the set of tables it can return, or the error
build_dataframe(candles) ==
    IF candles = <<>>
    THEN {[kind |-> "ValueError", columns |-> <<>>, rows |-> <<>>]}
    ELSE
    LET dfcols    == DataFrameColumns(candles)
        available == SelectSeq(column_mapping, LAMBDA m : InSeq(m[1], dfcols))
        columns   == [i \in 1..Len(available) |-> available[i][2]]
        colset    == {columns[i] : i \in 1..Len(columns)}
        source(c) == (CHOOSE i \in 1..Len(available) : available[i][2] = c)
        raw       == [r \in 1..Len(candles) |->
                        [c \in colset |-> CandleGet(candles[r], available[source(c)][1])]]
    IN  IF "date" \notin colset
        THEN {[kind |-> "ok", columns |-> columns, rows |-> raw]}
        ELSE IF \E r \in 1..Len(raw) : ~ToDatetime(raw[r].date).ok
        THEN {[kind |-> "ValueError", columns |-> <<>>, rows |-> <<>>]}
        ELSE LET dated == [r \in 1..Len(raw) |->
                             [raw[r] EXCEPT !.date = ToDatetime(raw[r].date).val]]
             IN  {[kind |-> "ok", columns |-> columns, rows |-> s] :
                     s \in SortValuesByDate(dated)}

(* ------------------- rates: src/rates/fetch_usd_rub.py ----------------- *)

DECIMAL_QUANT == 4

\* variant: the window does not count the end date itself
rates_build_date_range_exclusive(days, end_date, today) ==
    IF days < 1 THEN [kind |-> "ValueError", start |-> 0, end |-> 0]
    ELSE LET effective_end == IF end_date # <<>> THEN end_date[1] ELSE today
             start == DateMinusDays(effective_end, days)
         IN  IF start.ok
             THEN [kind |-> "ok", start |-> start.val, end |-> effective_end]
             ELSE [kind |-> "OverflowError", start |-> 0, end |-> 0]

\* build_date_range(days, end_date=...) of the rates module
rates_build_date_range(days, end_date, today) ==
    IF days < 1 THEN [kind |-> "ValueError", start |-> 0, end |-> 0]
    ELSE LET effective_end == IF end_date # <<>> THEN end_date[1] ELSE today
             start == DateMinusDays(effective_end, days - 1)
         IN  IF start.ok
             THEN [kind |-> "ok", start |-> start.val, end |-> effective_end]
             ELSE [kind |-> "OverflowError", start |-> 0, end |-> 0]

\* variant: the quoted value is quantized without the division by the nominal
per_unit_per_lot(value, nominal) ==
    LET e == DECIMAL_QUANT - value.scale
    IN  IF e >= 0
        THEN RoundHalfEven(value.num * Pow10(e), 1)
        ELSE RoundHalfEven(value.num, Pow10(0 - e))

\* (value / nominal).quantize(DECIMAL_QUANT), in units of 10^-DECIMAL_QUANT.
\* The quotient is exact within the 28 digits of the default context for the
\* operands of this model, so the only rounding is the quantize.
per_unit(value, nominal) ==
    LET e == nominal.scale + DECIMAL_QUANT - value.scale
    IN  IF e >= 0
        THEN RoundHalfEven(value.num * Pow10(e), nominal.num)
        ELSE RoundHalfEven(value.num, nominal.num * Pow10(0 - e))

RateError(msg) == [kind |-> "RateFetchError", msg |-> msg, as_of |-> 0, value |-> 0]

\* the body of the loop of _parse_rates for one Record element
\* rec = [Date, Value, Nominal], each <<>> (absent / no text) or <<text>>
parse_record(rec) ==
    IF rec.Date = <<>> \/ rec.Date = << <<>> >> \/ rec.Value = <<>>
    THEN RateError("missing_required_fields")
    ELSE
    LET record_date == StrptimeRecordDate(rec.Date[1])
        nominal == IF rec.Nominal # <<>> /\ rec.Nominal # << <<>> >>
                   THEN ParseDecimal(ReplaceComma(rec.Nominal[1]))
                   ELSE [ok |-> TRUE, num |-> 1, scale |-> 0]
        value   == ParseDecimal(ReplaceComma(rec.Value[1]))
    IN  IF ~record_date.ok THEN RateError("bad_date")
        ELSE IF ~nominal.ok \/ ~value.ok THEN RateError("bad_number")
        ELSE IF nominal.num = 0 THEN RateError("zero_nominal")
        ELSE [kind |-> "ok", msg |-> "", as_of |-> record_date.val,
              value |-> per_unit(value, nominal)]

\* variant: the records stay in document order
SortByAsOf_unsorted(s) == s

\* variant: the records are put in descending order of as_of
SortByAsOf_descending(s) ==
    LET DescInsert(sorted, r) ==
            LET k == Cardinality({i \in 1..Len(sorted) : sorted[i].as_of >= r.as_of})
            IN  SubSeq(sorted, 1, k) \o <<r>> \o SubSeq(sorted, k + 1, Len(sorted))
        Desc[n \in 0..Len(s)] ==
            IF n = 0 THEN <<>> ELSE DescInsert(Desc[n - 1], s[n])
    IN  Desc[Len(s)]

\* list.sort(key=as_of): stable insertion of r behind every record not later
SortInsert(sorted, r) ==
    LET k == Cardinality({i \in 1..Len(sorted) : sorted[i].as_of <= r.as_of})
    IN  SubSeq(sorted, 1, k) \o <<r>> \o SubSeq(sorted, k + 1, Len(sorted))

RECURSIVE SortByAsOf(_)
SortByAsOf(s) ==
    IF s = <<>> THEN <<>>
    ELSE SortInsert(SortByAsOf(SubSeq(s, 1, Len(s) - 1)), s[Len(s)])

\* variant: a Record that cannot be read is skipped instead of raising
_parse_rates_skip_bad(payload) ==
    IF ~payload.wellformed
    THEN [kind |-> "RateFetchError", msg |-> "xml_parse_error", records |-> <<>>]
    ELSE
    LET parsed == [i \in 1..Len(payload.records) |-> parse_record(payload.records[i])]
        good   == SelectSeq(parsed, LAMBDA r : r.kind = "ok")
    IN  [kind |-> "ok", msg |-> "",
         records |-> SortByAsOf([i \in 1..Len(good) |->
                        [as_of |-> good[i].as_of, value |-> good[i].value]])]

\* _parse_rates(payload), payload = [wellformed, records]: the Record children
\* of the root when ElementTree can parse the bytes
_parse_rates(payload) ==
    IF ~payload.wellformed
    THEN [kind |-> "RateFetchError", msg |-> "xml_parse_error", records |-> <<>>]
    ELSE
    LET parsed == [i \in 1..Len(payload.records) |-> parse_record(payload.records[i])]
        bad    == {i \in 1..Len(parsed) : parsed[i].kind # "ok"}
    IN  IF bad # {}
        THEN LET first == CHOOSE i \in bad : \A j \in bad : i <= j
             IN  [kind |-> "RateFetchError", msg |-> parsed[first].msg, records |-> <<>>]
        ELSE [kind |-> "ok", msg |-> "",
              records |-> SortByAsOf([i \in 1..Len(parsed) |->
                             [as_of |-> parsed[i].as_of, value |-> parsed[i].value]])]

\* fetch_eur_rub_rates: one http.get, raise_for_status, then _parse_rates
fetch_eur_rub_rates(http) ==
    IF http.kind = "raise"
    THEN [kind |-> http.type, msg |-> "", records |-> <<>>]
    ELSE IF ~http.status_ok
    THEN [kind |-> "HTTPError", msg |-> "", records |-> <<>>]
    ELSE _parse_rates(http.payload)

\* value.encode("utf-8") of a metadata string
EncodeUtf8(text) == [bytes |-> text]

\* variant: no check for an empty list
build_table_no_check(records, metadata) ==
    [kind |-> "ok",
     rate_date |-> [i \in 1..Len(records) |-> records[i].as_of],
     rate_value |-> [i \in 1..Len(records) |-> records[i].value],
     metadata |-> [i \in 1..Len(metadata) |->
                      <<EncodeUtf8(metadata[i][1]), EncodeUtf8(metadata[i][2])>>]]

\* build_table(records, metadata)
build_table(records, metadata) ==
    IF records = <<>>
    THEN [kind |-> "ValueError", rate_date |-> <<>>, rate_value |-> <<>>,
          metadata |-> <<>>]
    ELSE [kind |-> "ok",
          rate_date |-> [i \in 1..Len(records) |-> records[i].as_of],
          rate_value |-> [i \in 1..Len(records) |-> records[i].value],
          metadata |-> [i \in 1..Len(metadata) |->
                           <<EncodeUtf8(metadata[i][1]), EncodeUtf8(metadata[i][2])>>]]

(* ---- command line: _positive_int, _parse_iso_date, parse_args, write --- *)

DEFAULT_YEARS == 2
DEFAULT_DAYS == 7

\* _positive_int(value) (the same function in both modules)
_positive_int(value) ==
    LET parsed == ParseInt(value)
    IN  IF ~parsed.ok THEN [ok |-> FALSE, val |-> 0]
        ELSE IF parsed.val < 1 THEN [ok |-> FALSE, val |-> 0]
        ELSE [ok |-> TRUE, val |-> parsed.val]

\* _parse_iso_date(value) (the same function in both modules)
_parse_iso_date(value) == FromIsoFormat(value)

\* parse_args(argv): an ArgumentTypeError of a type function makes argparse
\* print the usage and leave with SystemExit(2); an option not given takes
\* its default. argv = [count, end_date], each <<>> or <<text>>.
parse_args(module, argv) ==
    LET cnt == IF argv.count = <<>>
               THEN [ok |-> TRUE,
                     val |-> IF module = "quotes" THEN DEFAULT_YEARS ELSE DEFAULT_DAYS]
               ELSE _positive_int(argv.count[1])
        endd == IF argv.end_date = <<>> THEN [ok |-> TRUE, val |-> 0]
                ELSE _parse_iso_date(argv.end_date[1])
    IN  IF cnt.ok /\ endd.ok
        THEN [kind |-> "ok", count |-> cnt.val,
              end_date |-> IF argv.end_date = <<>> THEN <<>> ELSE <<endd.val>>]
        ELSE [kind |-> "SystemExit", count |-> 0, end_date |-> <<>>]

\* digits of n, zero-padded to `width`
RECURSIVE NatToDigits(_, _)
NatToDigits(n, width) ==
    IF width = 0 THEN <<>>
    ELSE Append(NatToDigits(n \div 10, width - 1),
                CHOOSE c \in Digits : DigitVal(c) = n % 10)

\* date.isoformat(): YYYY-MM-DD of an ordinal
IsoFormat(ord) ==
    LET y == CHOOSE yy \in ((ord \div 366) + 1)..((ord \div 365) + 1) :
                 DaysBeforeYear(yy) < ord /\ ord <= DaysBeforeYear(yy + 1)
        n == ord - DaysBeforeYear(y)
        m == CHOOSE mm \in 1..12 :
                 DaysBeforeMonth(y, mm) < n /\ n <= DaysBeforeMonth(y, mm) + DaysInMonth(y, mm)
        d == n - DaysBeforeMonth(y, m)
    IN  NatToDigits(y, 4) \o <<"-">> \o NatToDigits(m, 2) \o <<"-">> \o NatToDigits(d, 2)

\* the metadata main() of the rates module attaches; `now` is the clock text
main_metadata(records, now) ==
    << << <<"report_dt">>, now >>,
       << <<"report_from_date">>, IsoFormat(records[1].as_of) >>,
       << <<"report_to_date">>, IsoFormat(records[Len(records)].as_of) >> >>

\* write_xlsx / write_parquet: target.parent.mkdir(parents=True, exist_ok=True),
\* then the library writes the file. disk is what the file system does:
\*   "ok", "mkdir_fails", "write_fails_early" (before the file is opened),
\*   "write_fails_late" (after part of the file is on disk)
write_file(fs, disk) ==
    IF disk = "mkdir_fails" /\ fs.dirs = "missing"
    THEN [kind |-> "OSError", fs |-> fs]
    ELSE IF disk = "write_fails_early"
    THEN [kind |-> "OSError", fs |-> [fs EXCEPT !.dirs = "exists"]]
    ELSE IF disk = "write_fails_late"
    THEN [kind |-> "OSError", fs |-> [dirs |-> "exists", file |-> "partial"]]
    ELSE [kind |-> "ok", fs |-> [dirs |-> "exists", file |-> "complete"]]

(* ------------------------- inputs of the model ------------------------ *)

MaxCount == 3
MaxRecords == 2
MaxCandles == 2

\* counts passed to build_date_range when it is called directly
Counts == (0 - MaxCount)..MaxCount

\* end dates passed directly, and the dates the clock can show
EndDates ==
    {MinOrdinal, MinOrdinal + 1, ToOrdinal(2, 1, 1), ToOrdinal(4, 1, 1),
     ToOrdinal(2024, 1, 15), ToOrdinal(2025, 11, 18), MaxOrdinal}
Todays == {ToOrdinal(2026, 11, 6)}

\* values of --years / --days and of --end-date on the command line
PositiveCountTexts == {<<"2">>, <<"+", "3">>}
NonPositiveCountTexts == {<<"0">>, <<"-", "1">>, <<"-", "0">>}
NonIntegerCountTexts == {<<"x">>, <<"1", ".", "5">>, <<>>}
CountTexts == PositiveCountTexts \cup NonPositiveCountTexts \cup NonIntegerCountTexts
WellFormedDateTexts ==
    {<<"2", "0", "2", "5", "-", "1", "1", "-", "1", "8">>,
     <<"0", "0", "0", "1", "-", "0", "1", "-", "0", "1">>}
MalformedDateTexts ==
    {<<"1", "8", ".", "1", "1", ".", "2", "0", "2", "5">>,
     <<"2", "0", "2", "5", "-", "0", "2", "-", "3", "0">>,
     <<"2", "0", "2", "5", "-", "1", "3", "-", "0", "1">>,
     <<"2", "0", "2", "5", "-", "1", "-", "5">>}
DateTexts == WellFormedDateTexts \cup MalformedDateTexts

Argvs ==
    {[count |-> c, end_date |-> e] :
        c \in {<<>>} \cup {<<t>> : t \in CountTexts},
        e \in {<<>>} \cup {<<t>> : t \in DateTexts}}

\* Record elements of a CBR answer: [Date attribute, Value text, Nominal text]
ValidRecordPool ==
    {[Date |-> <<<<"1", "8", ".", "1", "1", ".", "2", "0", "2", "5">>>>, Value |-> <<<<"9", "4", ",", "2", "0", "0", "0">>>>, Nominal |-> <<<<"2">>>>],
     [Date |-> <<<<"1", "7", ".", "1", "1", ".", "2", "0", "2", "5">>>>, Value |-> <<<<"9", "3", ",", "1", "0", "0", "0">>>>, Nominal |-> <<<<"1">>>>],
     [Date |-> <<<<"5", ".", "1", "2", ".", "2", "0", "2", "5">>>>, Value |-> <<<<"0", ",", "0", "0", "0", "5">>>>, Nominal |-> <<<<"2">>>>],
     [Date |-> <<<<"1", "7", ".", "1", "1", ".", "2", "0", "2", "5">>>>, Value |-> <<<<"-", "0", ",", "0", "0", "0", "3">>>>, Nominal |-> <<<<"2">>>>],
     [Date |-> <<<<"1", "8", ".", "1", "1", ".", "2", "0", "2", "5">>>>, Value |-> <<<<"1">>>>, Nominal |-> <<<<"3">>>>],
     [Date |-> <<<<"5", ".", "1", "2", ".", "2", "0", "2", "5">>>>, Value |-> <<<<"9", "3", ".", "1">>>>, Nominal |-> <<>>]}
\* no Date attribute, an empty Date attribute, no Value text
MissingFieldRecords ==
    {[Date |-> <<>>, Value |-> <<<<"9", "3", ",", "1", "0", "0", "0">>>>, Nominal |-> <<<<"1">>>>],
     [Date |-> <<<<>>>>, Value |-> <<<<"9", "3", ",", "1", "0", "0", "0">>>>, Nominal |-> <<<<"1">>>>],
     [Date |-> <<<<"1", "7", ".", "1", "1", ".", "2", "0", "2", "5">>>>, Value |-> <<>>, Nominal |-> <<<<"1">>>>]}
\* a Date that is not DD.MM.YYYY, or no calendar date
BadDateRecords ==
    {[Date |-> <<<<"2", "0", "2", "5", "-", "1", "1", "-", "1", "7">>>>, Value |-> <<<<"9", "3", ",", "1", "0", "0", "0">>>>, Nominal |-> <<<<"1">>>>],
     [Date |-> <<<<"3", "1", ".", "1", "1", ".", "2", "0", "2", "5">>>>, Value |-> <<<<"9", "3", ",", "1", "0", "0", "0">>>>, Nominal |-> <<<<"1">>>>]}
\* a Value or Nominal that is no number
BadNumberRecords ==
    {[Date |-> <<<<"1", "7", ".", "1", "1", ".", "2", "0", "2", "5">>>>, Value |-> <<<<"n", "/", "a">>>>, Nominal |-> <<<<"1">>>>],
     [Date |-> <<<<"1", "7", ".", "1", "1", ".", "2", "0", "2", "5">>>>, Value |-> <<<<"9", "3", ",", "1", "0", "0", "0">>>>, Nominal |-> <<<<"1", ",", "0", ",", "0">>>>]}
\* a Nominal equal to zero
ZeroNominalRecords ==
    {[Date |-> <<<<"1", "7", ".", "1", "1", ".", "2", "0", "2", "5">>>>, Value |-> <<<<"9", "3", ",", "1", "0", "0", "0">>>>, Nominal |-> <<<<"0">>>>],
     [Date |-> <<<<"1", "7", ".", "1", "1", ".", "2", "0", "2", "5">>>>, Value |-> <<<<"9", "3", ",", "1", "0", "0", "0">>>>, Nominal |-> <<<<"0", ",", "0", "0">>>>]}
BadRecordPool ==
    MissingFieldRecords \cup BadDateRecords \cup BadNumberRecords \cup ZeroNominalRecords
RecordPool == ValidRecordPool \cup BadRecordPool

SeqsUpTo(S, n) == UNION {[1..k -> S] : k \in 0..n}

Payloads ==
    {[wellformed |-> FALSE, records |-> <<>>]}
      \cup {[wellformed |-> TRUE, records |-> r] : r \in SeqsUpTo(RecordPool, MaxRecords)}

\* what the HTTP session does on http.get(...)
HttpOutcomes ==
    {[kind |-> "raise", type |-> "RequestException", status_ok |-> FALSE,
      payload |-> [wellformed |-> FALSE, records |-> <<>>]]}
      \cup {[kind |-> "response", type |-> "", status_ok |-> ok, payload |-> pl] :
              ok \in BOOLEAN, pl \in Payloads}

\* candles as apimoex returns them: dicts with one key set per answer
CandlePool ==
    {<<<<"begin", <<"2", "0", "2", "4", "-", "0", "1", "-", "1", "6", " ", "0", "0", ":", "0", "0", ":", "0", "0">>>>, <<"open", 101>>, <<"close", 102>>, <<"waprice", 103>>>>,
     <<<<"begin", <<"2", "0", "2", "4", "-", "0", "1", "-", "1", "5", " ", "0", "0", ":", "0", "0", ":", "0", "0">>>>, <<"open", 100>>, <<"close", 101>>, <<"waprice", 102>>>>,
     <<<<"waprice", 104>>, <<"close", 103>>, <<"open", 102>>, <<"begin", <<"2", "0", "2", "4", "-", "0", "2", "-", "0", "5", " ", "0", "0", ":", "0", "0", ":", "0", "0">>>>>>,
     <<<<"close", 101>>, <<"begin", <<"2", "0", "2", "4", "-", "0", "1", "-", "1", "5", " ", "0", "0", ":", "0", "0", ":", "0", "0">>>>, <<"waprice", 99>>, <<"open", 98>>>>,
     <<<<"begin", <<"2", "0", "2", "4", "-", "0", "1", "-", "1", "6", " ", "0", "0", ":", "0", "0", ":", "0", "0">>>>, <<"open", 101>>, <<"value", 5000>>, <<"boardid", 7>>>>,
     <<<<"boardid", 7>>, <<"value", 4000>>, <<"open", 100>>, <<"begin", <<"2", "0", "2", "4", "-", "0", "1", "-", "1", "5", " ", "0", "0", ":", "0", "0", ":", "0", "0">>>>>>,
     <<<<"open", 101>>, <<"close", 102>>>>,
     <<<<"close", 100>>, <<"open", 99>>>>}

KeySet(c) == {c[i][1] : i \in 1..Len(c)}

CandleLists ==
    {cs \in SeqsUpTo(CandlePool, MaxCandles) :
        \A i, j \in 1..Len(cs) : KeySet(cs[i]) = KeySet(cs[j])}

\* what the exchange does on a call of apimoex.get_board_candles: the candles
\* it holds for the range, or an exception
ApiOutcomes ==
    {[kind |-> "raise", type |-> t, msg |-> <<t>>, data |-> <<>>] :
        t \in {"RequestException", "ConnectionError", "Timeout", "KeyError", "ValueError"}}
      \cup {[kind |-> "return", type |-> "", msg |-> <<>>, data |-> cs] : cs \in CandleLists}

\* records and metadata handed to build_table directly
RateRecordPool ==
    {[as_of |-> ToOrdinal(2025, 11, 17), value |-> 931000],
     [as_of |-> ToOrdinal(2025, 11, 18), value |-> 942000]}
MetadataPool ==
    {<<>>,
     << << <<"report_dt">>, <<"2", "0", "2", "5", "-", "1", "1", "-", "1", "8", "T", "1", "0", ":", "0", "0", ":", "0", "0", "+", "0", "0", ":", "0", "0">> >> >>}

DiskOutcomes == {"ok", "mkdir_fails", "write_fails_early", "write_fails_late"}

InitialFs ==
    {[dirs |-> "missing", file |-> "absent"],
     [dirs |-> "exists", file |-> "old"]}

(* ------------------------------ state --------------------------------- *)

VARIABLES
    entry,      \* the function the run entered: "main" or a function called directly
    module,     \* "quotes" or "rates"
    pc,         \* the step the run is at; "done" and "raised" end it
    argv,       \* command-line values of a run of main
    count,      \* years / days
    end_date,   \* <<>> or <<ordinal>>
    today,      \* the date the clock shows
    range,      \* <<>> or <<[start, end]>>
    response,   \* <<>> or <<what the remote side did>>
    api_calls,  \* calls of the exchange API / HTTP requests issued
    data,       \* candles or RateRecords
    metadata,   \* metadata handed to build_table
    table,      \* <<>> or <<the table built>>
    fs0,        \* output directory and file when the run began
    fs,         \* output directory and file now
    error       \* [type, msg]; type "" while nothing was raised

vars == <<entry, module, pc, argv, count, end_date, today, range, response,
          api_calls, data, metadata, table, fs0, fs, error>>

NoError == [type |-> "", msg |-> <<>>]
NoArgv == [count |-> <<>>, end_date |-> <<>>]
ClockText == <<"2", "0", "2", "6", "-", "1", "1", "-", "0", "6", "T", "1", "0", ":", "0", "0", "+", "0", "0", ":", "0", "0">>

InitCommon ==
    /\ module \in {"quotes", "rates"}
    /\ today \in Todays
    /\ range = <<>>
    /\ response = <<>>
    /\ api_calls = 0
    /\ table = <<>>
    /\ fs0 \in InitialFs
    /\ fs = fs0
    /\ error = NoError

\* python -m ... : main(argv)
InitMain ==
    /\ InitCommon
    /\ entry = "main"
    /\ pc = "parse_args"
    /\ argv \in Argvs
    /\ count = 0
    /\ end_date = <<>>
    /\ data = <<>>
    /\ metadata = <<>>

\* build_date_range(count, end_date=...) called directly
InitBuildDateRange ==
    /\ InitCommon
    /\ entry = "build_date_range"
    /\ pc = "build_date_range"
    /\ argv = NoArgv
    /\ count \in Counts
    /\ end_date \in {<<>>} \cup {<<d>> : d \in EndDates}
    /\ data = <<>>
    /\ metadata = <<>>

\* fetch_lqdt_candles / fetch_eur_rub_rates called directly with a range
InitFetch ==
    /\ InitCommon
    /\ entry = "fetch"
    /\ pc = "fetch"
    /\ argv = NoArgv
    /\ count = 0
    /\ end_date = <<>>
    /\ data = <<>>
    /\ metadata = <<>>

\* build_dataframe(candles) / build_table(records, metadata) called directly
InitBuild ==
    /\ InitCommon
    /\ entry = "build"
    /\ pc = "build"
    /\ argv = NoArgv
    /\ count = 0
    /\ end_date = <<>>
    /\ \/ module = "quotes" /\ data \in CandleLists /\ metadata = <<>>
       \/ /\ module = "rates"
          /\ data \in SeqsUpTo(RateRecordPool, MaxRecords)
          /\ metadata \in MetadataPool

Init == InitMain \/ InitBuildDateRange \/ InitFetch \/ InitBuild

Raise(type, msg) ==
    /\ pc' = "raised"
    /\ error' = [type |-> type, msg |-> msg]

\* where a function called directly returns, and where main goes on
After(next) == IF entry = "main" THEN next ELSE "done"

(* ------------------------------ actions ------------------------------- *)

ParseArgs ==
    /\ pc = "parse_args"
    /\ LET a == parse_args(module, argv)
       IN  IF a.kind = "ok"
           THEN /\ count' = a.count
                /\ end_date' = a.end_date
                /\ pc' = "build_date_range"
                /\ UNCHANGED error
           ELSE /\ Raise("SystemExit", <<"argparse_error">>)
                /\ UNCHANGED <<count, end_date>>
    /\ UNCHANGED <<entry, module, argv, today, range, response, api_calls, data,
                   metadata, table, fs0, fs>>

BuildDateRange ==
    /\ pc = "build_date_range"
    /\ LET r == IF module = "quotes"
                THEN quotes_build_date_range(count, end_date, today)
                ELSE rates_build_date_range(count, end_date, today)
       IN  IF r.kind = "ok"
           THEN /\ range' = <<[start |-> r.start, end |-> r.end]>>
                /\ pc' = After("fetch")
                /\ UNCHANGED error
           ELSE /\ Raise(r.kind, <<>>)
                /\ UNCHANGED range
    /\ UNCHANGED <<entry, module, argv, count, end_date, today, response,
                   api_calls, data, metadata, table, fs0, fs>>

\* fetch_lqdt_candles: one call of apimoex.get_board_candles in _execute_fetch
FetchLqdtCandles ==
    /\ pc = "fetch"
    /\ module = "quotes"
    /\ \E exchange \in ApiOutcomes :
          LET r == _execute_fetch(get_board_candles(exchange, COLUMNS))
          IN  /\ response' = <<exchange>>
              /\ api_calls' = api_calls + 1
              /\ IF r.kind = "return"
                 THEN /\ data' = r.data
                      /\ pc' = After("build")
                      /\ UNCHANGED error
                 ELSE /\ Raise(r.type, r.msg)
                      /\ UNCHANGED data
    /\ UNCHANGED <<entry, module, argv, count, end_date, today, range, metadata,
                   table, fs0, fs>>

\* fetch_eur_rub_rates: one http.get, then _parse_rates
FetchEurRubRates ==
    /\ pc = "fetch"
    /\ module = "rates"
    /\ \E http \in HttpOutcomes :
          LET r == fetch_eur_rub_rates(http)
          IN  /\ response' = <<http>>
              /\ api_calls' = api_calls + 1
              /\ IF r.kind = "ok"
                 THEN /\ data' = r.records
                      /\ pc' = After("build")
                      /\ UNCHANGED error
                 ELSE /\ Raise(r.kind, <<r.msg>>)
                      /\ UNCHANGED data
    /\ UNCHANGED <<entry, module, argv, count, end_date, today, range, metadata,
                   table, fs0, fs>>

\* build_dataframe; in main it follows the `if not candles` check
BuildDataframe ==
    /\ pc = "build"
    /\ module = "quotes"
    /\ IF entry = "main" /\ data = <<>>
       THEN /\ Raise("QuoteFetchError", <<"empty_dataset_for">> \o SECURITY)
            /\ UNCHANGED table
       ELSE \E r \in build_dataframe(data) :
               IF r.kind = "ok"
               THEN /\ table' = <<[columns |-> r.columns, rows |-> r.rows]>>
                    /\ pc' = After("write")
                    /\ UNCHANGED error
               ELSE /\ Raise(r.kind, <<>>)
                    /\ UNCHANGED table
    /\ UNCHANGED <<entry, module, argv, count, end_date, today, range, response,
                   api_calls, data, metadata, fs0, fs>>

\* build_table; in main it follows the `if not records` check and the
\* construction of the metadata
BuildTable ==
    /\ pc = "build"
    /\ module = "rates"
    /\ IF entry = "main" /\ data = <<>>
       THEN /\ Raise("RateFetchError", <<"empty_dataset">>)
            /\ UNCHANGED <<table, metadata>>
       ELSE LET md == IF entry = "main" THEN main_metadata(data, ClockText)
                      ELSE metadata
                r  == build_table(data, md)
            IN  /\ metadata' = md
                /\ IF r.kind = "ok"
                   THEN /\ table' = <<[rate_date |-> r.rate_date,
                                       rate_value |-> r.rate_value,
                                       metadata |-> r.metadata]>>
                        /\ pc' = After("write")
                        /\ UNCHANGED error
                   ELSE /\ Raise(r.kind, <<>>)
                        /\ UNCHANGED table
    /\ UNCHANGED <<entry, module, argv, count, end_date, today, range, response,
                   api_calls, data, fs0, fs>>

\* write_xlsx / write_parquet, the last step of main
WriteFile ==
    /\ pc = "write"
    /\ \E disk \in DiskOutcomes :
          LET w == write_file(fs, disk)
          IN  /\ fs' = w.fs
              /\ IF w.kind = "ok"
                 THEN pc' = "done" /\ UNCHANGED error
                 ELSE Raise(w.kind, <<>>)
    /\ UNCHANGED <<entry, module, argv, count, end_date, today, range, response,
                   api_calls, data, metadata, table, fs0>>

Next ==
    \/ ParseArgs
    \/ BuildDateRange
    \/ FetchLqdtCandles
    \/ FetchEurRubRates
    \/ BuildDataframe
    \/ BuildTable
    \/ WriteFile

Spec == Init /\ [][Next]_vars

(* ------------------------------ claims -------------------------------- *)

\* build_date_range has run on (count, end_date): directly, or in main after
\* parse_args accepted the command line
RangeBuilt ==
    /\ entry \in {"build_date_range", "main"}
    /\ pc \notin {"parse_args", "build_date_range"}
    /\ error.type # "SystemExit"

\* days the window reaches back from its end date
WindowBack == IF module = "quotes" THEN count * 365 ELSE count - 1

RangeAsRequested ==
    /\ range # <<>>
    /\ error.type \notin {"ValueError", "OverflowError"}
    /\ range[1].end = end_date[1]
    /\ range[1].start <= range[1].end
    /\ module = "quotes" => range[1].end - range[1].start = count * 365
    /\ module = "rates" =>
          /\ range[1].start = range[1].end - (count - 1)
          /\ Cardinality(range[1].start..range[1].end) = count

\* C1 as stated: for every count >= 1 and every supplied end date,
\* build_date_range returns (start, end) with end the supplied date,
\* start <= end and the requested length (years * 365 days back in the quotes
\* module, exactly `days` calendar days inclusive in the rates module).
C1_EveryEndDate ==
    (RangeBuilt /\ count >= 1 /\ end_date # <<>>) => RangeAsRequested

\* C1 amended: the same, for every supplied end date from which the window
\* start is still a date (not before 0001-01-01); for the other end dates
\* build_date_range raises OverflowError and returns no range.
C1_RepresentableStart ==
    (RangeBuilt /\ count >= 1 /\ end_date # <<>>) =>
        IF end_date[1] - WindowBack >= MinOrdinal
        THEN RangeAsRequested
        ELSE range = <<>> /\ pc = "raised" /\ error.type = "OverflowError"

C1_Witness ==
    /\ RangeBuilt
    /\ module = "rates"
    /\ count >= 2
    /\ end_date # <<>>
    /\ range # <<>>

\* C2: build_date_range with a count of 0 or below raises ValueError and
\* returns no range in both modules, with or without an end date; and a run
\* of either command line with a non-positive count or a malformed date is
\* rejected by the argument parser before any request is issued.
C2_NonPositiveRejected ==
    /\ (entry = "build_date_range" /\ pc # "build_date_range" /\ count < 1) =>
          /\ pc = "raised"
          /\ error.type = "ValueError"
          /\ range = <<>>
    /\ (/\ entry = "main"
        /\ \/ argv.count \in {<<t>> : t \in NonPositiveCountTexts}
           \/ argv.end_date \in {<<t>> : t \in MalformedDateTexts}) =>
          /\ api_calls = 0
          /\ response = <<>>
          /\ pc \in {"parse_args", "raised"}
          /\ pc = "raised" => error.type = "SystemExit"

C2_Witness ==
    /\ entry = "build_date_range"
    /\ module = "quotes"
    /\ count = 0
    /\ end_date # <<>>
    /\ pc = "raised"

\* fetch_eur_rub_rates got an answer with status 200 and has run _parse_rates
RatesParsed ==
    /\ module = "rates"
    /\ response # <<>>
    /\ response[1].kind = "response"
    /\ response[1].status_ok

RatesReturned == RatesParsed /\ error.type \notin {"RateFetchError", "HTTPError", "RequestException"}

InputRecords == response[1].payload.records

\* the numbers a Record quotes: its Value, and its Nominal (1 when absent)
Quoted(rec) == ParseDecimal(ReplaceComma(rec.Value[1]))
NominalOf(rec) ==
    IF rec.Nominal = <<>> THEN [ok |-> TRUE, num |-> 1, scale |-> 0]
    ELSE ParseDecimal(ReplaceComma(rec.Nominal[1]))

\* x / 10^4 is value / nominal rounded to 4 fractional digits, ties to even:
\* with both sides of x / 10^4 ~ value / nominal multiplied out,
\* the distance is at most half a unit, and x is even when it is exactly half
IsPerUnitHalfEven(x, value, nominal) ==
    LET k     == IF value.scale < nominal.scale + DECIMAL_QUANT
                 THEN value.scale ELSE nominal.scale + DECIMAL_QUANT
        lhs   == x * nominal.num * Pow10(value.scale - k)
        rhs   == value.num * Pow10(nominal.scale + DECIMAL_QUANT - k)
        unit  == Abs(nominal.num) * Pow10(value.scale - k)
    IN  /\ 2 * Abs(lhs - rhs) <= unit
        /\ 2 * Abs(lhs - rhs) = unit => x % 2 = 0

TestRecordNominal2 ==
    [Date |-> << <<"1", "8", ".", "1", "1", ".", "2", "0", "2", "5">> >>,
     Value |-> << <<"9", "4", ",", "2", "0", "0", "0">> >>,
     Nominal |-> << <<"2">> >>]

CountIn(x, s) == Cardinality({i \in 1..Len(s) : s[i] = x})

Normalized(rec) ==
    [as_of |-> parse_record(rec).as_of, value |-> parse_record(rec).value]

\* C4: for every valid payload, in whatever order its Records come, the list
\* fetch_eur_rub_rates returns is ascending by as_of and a permutation of the
\* normalized input records: one output record per input Record.
C4_SortedPermutation ==
    RatesReturned =>
        /\ Len(data) = Len(InputRecords)
        /\ \A i \in 1..(Len(data) - 1) : data[i].as_of <= data[i + 1].as_of
        /\ \A i \in 1..Len(InputRecords) :
              CountIn(Normalized(InputRecords[i]), data)
                = CountIn(Normalized(InputRecords[i]),
                          [k \in 1..Len(InputRecords) |-> Normalized(InputRecords[k])])

\* the answer lists a later date before an earlier one, as in the test
C4_Witness ==
    /\ RatesReturned
    /\ Len(InputRecords) = 2
    /\ InputRecords[1].Date = << <<"1", "8", ".", "1", "1", ".", "2", "0", "2", "5">> >>
    /\ InputRecords[2].Date = << <<"1", "7", ".", "1", "1", ".", "2", "0", "2", "5">> >>
    /\ Len(data) = 2
    /\ data[1].as_of = ToOrdinal(2025, 11, 17)
    /\ data[2].as_of = ToOrdinal(2025, 11, 18)

\* C5: fetch_eur_rub_rates raises RateFetchError, and returns no list at all,
\* when the payload is not well-formed XML or one of its Records lacks the
\* Date attribute or the Value text, has a Value or Nominal that is no number,
\* or has Nominal 0, wherever the Record stands among valid ones.
C5_BadPayloadRaises ==
    (/\ RatesParsed
     /\ \/ ~response[1].payload.wellformed
        \/ \E i \in 1..Len(InputRecords) :
              InputRecords[i] \in
                 MissingFieldRecords \cup BadNumberRecords \cup ZeroNominalRecords) =>
        /\ pc = "raised"
        /\ error.type = "RateFetchError"
        /\ data = <<>>
        /\ table = <<>>

\* a valid Record first, then one with Nominal 0
C5_Witness ==
    /\ RatesParsed
    /\ Len(InputRecords) = 2
    /\ InputRecords[1] \in ValidRecordPool
    /\ InputRecords[2] \in ZeroNominalRecords
    /\ error.type = "RateFetchError"

\* fetch_lqdt_candles has run
QuotesFetched == module = "quotes" /\ response # <<>>

RawExceptionTypes ==
    {"RequestException", "ConnectionError", "Timeout", "KeyError", "ValueError"}
TransportTypes == {"RequestException", "ConnectionError", "Timeout"}

\* C6: a call of fetch_lqdt_candles calls the exchange API exactly once and
\* never again; when that call raises, a transport exception or any other,
\* the fetch ends with QuoteFetchError carrying a message that describes the
\* failure, and the raw exception does not escape.
C6_SingleCallWrapped ==
    /\ api_calls <= 1
    /\ QuotesFetched =>
          /\ api_calls = 1
          /\ response[1].kind = "raise" =>
                /\ pc = "raised"
                /\ error.type = "QuoteFetchError"
                /\ error.type \notin RawExceptionTypes
                /\ Len(error.msg) >= 2
                /\ error.msg[1] \in {"api_request_error", "unexpected_error"}
                /\ SubSeq(error.msg, 2, Len(error.msg)) = response[1].msg
                /\ data = <<>>

C6_Witness ==
    /\ QuotesFetched
    /\ entry = "fetch"
    /\ response[1].kind = "raise"
    /\ response[1].type = "KeyError"
    /\ error.type = "QuoteFetchError"

\* C7: the error of the candle fetcher tells its three causes apart: an empty
\* dataset is the empty-dataset error naming LQDT, a transport failure the
\* API-request error, any other exception the unexpected error; an empty
\* dataset is never reported as an unexpected error.
C7_CausesDistinguished ==
    (QuotesFetched /\ pc = "raised" /\ error.type = "QuoteFetchError") =>
        /\ (response[1].kind = "return" /\ response[1].data = <<>>) =>
              /\ error.msg = <<"empty_dataset_for">> \o SECURITY
              /\ error.msg[1] # "unexpected_error"
        /\ (response[1].kind = "raise" /\ response[1].type \in TransportTypes) =>
              error.msg[1] = "api_request_error"
        /\ (response[1].kind = "raise" /\ response[1].type \notin TransportTypes) =>
              error.msg[1] = "unexpected_error"

\* the remote side answered with an empty dataset
EmptyDatasetFetched ==
    /\ response # <<>>
    /\ \/ module = "quotes" /\ response[1].kind = "return" /\ response[1].data = <<>>
       \/ /\ module = "rates"
          /\ response[1].kind = "response"
          /\ response[1].status_ok
          /\ response[1].payload.wellformed
          /\ response[1].payload.records = <<>>

\* C8: build_dataframe and build_table raise ValueError on zero records and
\* build no table, whatever the metadata; so a run of either command line
\* never writes an output file for an empty dataset.
C8_EmptyNeverBuilt ==
    /\ (entry = "build" /\ pc # "build" /\ data = <<>>) =>
          /\ pc = "raised"
          /\ error.type = "ValueError"
          /\ table = <<>>
    /\ (entry = "main" /\ EmptyDatasetFetched) =>
          /\ table = <<>>
          /\ fs = fs0
          /\ pc \notin {"write", "done"}

C8_Witness ==
    /\ entry = "build"
    /\ module = "rates"
    /\ data = <<>>
    /\ metadata # <<>>
    /\ pc = "raised"
    /\ error.type = "ValueError"

\* C9: no partial output: a run of either command line writes a complete
\* file or nothing; a run that ends in an error, a failure of the write step
\* included, has neither created nor changed the output file or its parent
\* directories.
C9_NoPartialOutput ==
    entry = "main" =>
        /\ pc = "done" => fs.file = "complete"
        /\ pc = "raised" => fs = fs0

\* columns of the written table, in their fixed order, with the exchange key
\* each comes from
FixedColumns ==
    <<"date", "open", "high", "low", "close", "volume", "value", "vwap">>
SourceKey(c) == IF c = "date" THEN "begin" ELSE IF c = "vwap" THEN "waprice" ELSE c

\* row is candle c restricted to the table's columns, its begin read as a date
RowOfCandle(row, c, cols) ==
    \A k \in 1..Len(cols) :
        IF cols[k] = "date"
        THEN row[cols[k]] = ToDatetime(CandleGet(c, "begin")).val
        ELSE row[cols[k]] = CandleGet(c, SourceKey(cols[k]))

\* build_dataframe has returned a table
FrameBuilt == module = "quotes" /\ table # <<>>

\* C10: for a non-empty candle list build_dataframe returns one row per
\* candle, rows ascending by date whatever the input order, and the columns
\* date, open, high, low, close, volume, value, vwap in that order, limited to
\* the fields the input has, whatever the key order of the input records.
C10_RowsAndColumns ==
    FrameBuilt =>
        LET t == table[1]
        IN  /\ data # <<>>
            /\ Len(t.rows) = Len(data)
            /\ \E p \in Perms(Len(data)) :
                  \A j \in 1..Len(data) : RowOfCandle(t.rows[j], data[p[j]], t.columns)
            /\ t.columns =
                  SelectSeq(FixedColumns,
                            LAMBDA c : \E i \in 1..Len(data) : HasKey(data[i], SourceKey(c)))
            /\ InSeq("date", t.columns) =>
                  \A j \in 1..(Len(t.rows) - 1) :
                     \/ t.rows[j].date[1] < t.rows[j + 1].date[1]
                     \/ /\ t.rows[j].date[1] = t.rows[j + 1].date[1]
                        /\ t.rows[j].date[2] <= t.rows[j + 1].date[2]

\* two candles, the later first and with its keys in another order
C10_Witness ==
    /\ FrameBuilt
    /\ Len(data) = 2
    /\ CandleKeys(data[1]) = <<"waprice", "close", "open", "begin">>
    /\ CandleKeys(data[2]) = <<"begin", "open", "close", "waprice">>
    /\ table[1].columns = <<"date", "open", "close", "vwap">>
    /\ table[1].rows[1].open = 100
    /\ table[1].rows[2].open = 102

\* a run of the quotes command line has written its file, and the candles
\* the exchange holds carry the volume-weighted average price
QuotesRunWritten ==
    /\ entry = "main"
    /\ module = "quotes"
    /\ pc = "done"
    /\ response[1].kind = "return"
    /\ \A i \in 1..Len(response[1].data) : HasKey(response[1].data[i], "waprice")

\* C11: the quotes command line collects daily candles and the VWAP of LQDT:
\* the fields requested from the exchange include the VWAP field, so the table
\* a successful run writes has a vwap column.
C11_VwapCollected ==
    QuotesRunWritten =>
        /\ InSeq("waprice", COLUMNS)
        /\ InSeq("vwap", table[1].columns)

\* a run of the rates command line has built its table
RatesTableBuilt == entry = "main" /\ module = "rates" /\ table # <<>>

AsOfDates == {data[i].as_of : i \in 1..Len(data)}

MetadataValue(key) ==
    metadata[CHOOSE i \in 1..Len(metadata) : metadata[i][1] = key][2]

\* C12: in every run of the rates command line that reaches the construction
\* of the table, report_from_date <= report_to_date, report_from_date is the
\* earliest and report_to_date the latest as_of among the fetched records (the
\* range the data covers, not the requested range), the list being sorted and
\* non-empty when its first and last elements are read.
C12_MetadataCoversData ==
    RatesTableBuilt =>
        LET from == FromIsoFormat(MetadataValue(<<"report_from_date">>))
            to   == FromIsoFormat(MetadataValue(<<"report_to_date">>))
        IN  /\ data # <<>>
            /\ \A i \in 1..(Len(data) - 1) : data[i].as_of <= data[i + 1].as_of
            /\ from.ok /\ to.ok
            /\ from.val <= to.val
            /\ from.val \in AsOfDates /\ \A d \in AsOfDates : from.val <= d
            /\ to.val \in AsOfDates /\ \A d \in AsOfDates : d <= to.val

\* the answer lists 18.11.2025 before 17.11.2025, and the covered range
\* begins after the requested one
C12_Witness ==
    /\ RatesTableBuilt
    /\ Len(InputRecords) = 2
    /\ InputRecords[1].Date = << <<"1", "8", ".", "1", "1", ".", "2", "0", "2", "5">> >>
    /\ InputRecords[2].Date = << <<"1", "7", ".", "1", "1", ".", "2", "0", "2", "5">> >>
    /\ MetadataValue(<<"report_from_date">>)
          = <<"2", "0", "2", "5", "-", "1", "1", "-", "1", "7">>
    /\ MetadataValue(<<"report_to_date">>)
          = <<"2", "0", "2", "5", "-", "1", "1", "-", "1", "8">>
    /\ range[1].start < ToOrdinal(2025, 11, 17)
    /\ range[1].end = ToOrdinal(2025, 11, 18)

====
